---- MODULE Spec2Model ----
(***************************************************************************)
(* Model of wiki-search (pkg/utils, pkg/model, pkg/wiki).                  *)
(*                                                                         *)
(* Go strings are byte sequences: a string is modelled as a sequence of    *)
(* byte values (the UTF-8 encoding), len(s) is Len(s) and s[i:j] is        *)
(* SubSeq(s, i+1, j).  Offsets are 0-based as in the source.               *)
(***************************************************************************)
EXTENDS Integers, Sequences, FiniteSets, TLC

(***************************************************************************)
(* Bounds of the model.                                                    *)
(***************************************************************************)
MaxContentLen == 4      \* runes in a FindMatches content
MaxQueryLen == 2        \* runes in a FindMatches query
MaxTextLen == 6         \* runes in a WrapText text
MaxWidth == 3           \* largest wrap width

(***************************************************************************)
(* Runes of the model alphabet, as their UTF-8 encodings.                  *)
(***************************************************************************)
NL == 10                \* "\n"
SP == 32                \* " "
RuneLowerA == <<97>>                \* a
RuneUpperA == <<65>>                \* A
RuneLowerB == <<98>>                \* b
RuneLowerK == <<107>>               \* k
RuneKelvin == <<226, 132, 170>>     \* U+212A KELVIN SIGN, lower case is k
RuneUpperAStroke == <<200, 186>>    \* U+023A, lower case is U+2C65
RuneLowerAStroke == <<226, 177, 165>>   \* U+2C65
RuneError == <<239, 191, 189>>      \* U+FFFD, written for an invalid byte

RECURSIVE Concat(_)
\* the concatenation of a sequence of strings
Concat(ss) == IF ss = <<>> THEN <<>> ELSE Head(ss) \o Concat(Tail(ss))

\* the elements of s
Range(s) == {s[k] : k \in 1..Len(s)}

\* all sequences over S of length at most n
SeqsUpTo(S, n) == UNION {[1..k -> S] : k \in 0..n}

\* the strings made of at most n runes of the set R
Strings(R, n) == {Concat(rs) : rs \in SeqsUpTo(R, n)}

\* s[i:j] of the source, 0-based and half-open
Slice(s, i, j) == SubSeq(s, i + 1, j)

\* s has the bytes of p at offset i
HasAt(s, p, i) == i + Len(p) <= Len(s) /\ Slice(s, i, i + Len(p)) = p

(***************************************************************************)
(* strings.ToLower: the string is decoded rune by rune and every rune is   *)
(* replaced by the encoding of its lower case, which may be shorter or     *)
(* longer than the rune it replaces; an invalid byte becomes U+FFFD.       *)
(***************************************************************************)
RECURSIVE ToLowerFrom(_, _)
ToLowerFrom(s, i) ==
    IF i >= Len(s) THEN <<>>
    ELSE IF HasAt(s, RuneKelvin, i) THEN RuneLowerK \o ToLowerFrom(s, i + 3)
    ELSE IF HasAt(s, RuneUpperAStroke, i) THEN RuneLowerAStroke \o ToLowerFrom(s, i + 2)
    ELSE IF HasAt(s, RuneLowerAStroke, i) THEN RuneLowerAStroke \o ToLowerFrom(s, i + 3)
    ELSE IF s[i + 1] \in 65..90 THEN <<s[i + 1] + 32>> \o ToLowerFrom(s, i + 1)
    ELSE IF s[i + 1] < 128 THEN <<s[i + 1]>> \o ToLowerFrom(s, i + 1)
    ELSE RuneError \o ToLowerFrom(s, i + 1)

ToLower(s) == ToLowerFrom(s, 0)

(***************************************************************************)
(* strings.Index: the offset of the first occurrence of sub in s, or -1.   *)
(***************************************************************************)
Index(s, sub) ==
    LET occ == {i \in 0..(Len(s) - Len(sub)) : HasAt(s, sub, i)}
    IN IF occ = {} THEN -1 ELSE CHOOSE i \in occ : \A j \in occ : i <= j

(***************************************************************************)
(* utils.FindMatches                                                       *)
(***************************************************************************)
FindMatchesNoGuard(query) == FALSE

\* line 26: the guard that returns nil
FindMatchesReturnsNil(query) == query = <<>>

FindAdvancePastEnd(start, i, lowerQuery) == start + i + Len(lowerQuery)

\* line 39: the scan position after a match found at i in lowerContent[start:]
FindAdvance(start, i, lowerQuery) == start + i + 1

\* line 38: the offset appended for a match found at i in lowerContent[start:]
FindOffset(start, i) == start + i

RECURSIVE FindLoop(_, _, _, _)
\* lines 32-40; lowerContent[start:] exists only while start <= len(lowerContent)
FindLoop(lowerContent, lowerQuery, start, matches) ==
    IF start > Len(lowerContent) THEN matches
    ELSE LET i == Index(Slice(lowerContent, start, Len(lowerContent)), lowerQuery)
         IN IF i = -1 THEN matches
            ELSE FindLoop(lowerContent, lowerQuery,
                          FindAdvance(start, i, lowerQuery),
                          Append(matches, FindOffset(start, i)))

FindMatches(content, query) ==
    IF FindMatchesReturnsNil(query) THEN <<>>
    ELSE FindLoop(ToLower(content), ToLower(query), 0, <<>>)

(***************************************************************************)
(* utils.WrapText                                                          *)
(***************************************************************************)
RECURSIVE SplitFrom(_, _, _)
\* strings.Split(s, sep) for a one-byte separator: the pieces between the
\* separators, one more than there are separators
SplitFrom(s, sep, piece) ==
    IF s = <<>> THEN <<piece>>
    ELSE IF Head(s) = sep THEN <<piece>> \o SplitFrom(Tail(s), sep, <<>>)
    ELSE SplitFrom(Tail(s), sep, Append(piece, Head(s)))

Split(s, sep) == SplitFrom(s, sep, <<>>)

\* unicode.IsSpace on the one-byte runes: \t \n \v \f \r and space
IsSpace(b) == b \in {9, 10, 11, 12, 13, 32}

RECURSIVE FieldsFrom(_, _)
\* strings.Fields: the maximal runs of non-space bytes, in order
FieldsFrom(s, word) ==
    IF s = <<>> THEN (IF word = <<>> THEN <<>> ELSE <<word>>)
    ELSE IF IsSpace(Head(s))
         THEN (IF word = <<>> THEN <<>> ELSE <<word>>) \o FieldsFrom(Tail(s), <<>>)
         ELSE FieldsFrom(Tail(s), Append(word, Head(s)))

Fields(s) == FieldsFrom(s, <<>>)

WrapUnchangedOnlyBelowZero(width) == width < 0

\* line 99: the guard that returns text unchanged
WrapReturnsUnchanged(width) == width <= 0

WrapBlankLineDropped == <<>>

WrapBlankLineDoubled == <<NL, NL>>

\* line 107: what a line without words writes
WrapBlankLine == <<NL>>

WrapBreaksAtWidth(currentLine, word, width) ==
    Len(currentLine) + 1 + Len(word) >= width

WrapBreaksWithoutSeparator(currentLine, word, width) ==
    Len(currentLine) + Len(word) > width

\* line 113: the next word does not fit on the current line
WrapBreaks(currentLine, word, width) ==
    Len(currentLine) + 1 + Len(word) > width

WrapJoinNoSpace(currentLine, word) == currentLine \o word

\* line 117: the next word joins the current line
WrapJoin(currentLine, word) == currentLine \o <<SP>> \o word

RECURSIVE WrapWords(_, _, _)
\* lines 112-120: the words after the first, then the last line
WrapWords(currentLine, words, width) ==
    IF words = <<>> THEN currentLine \o <<NL>>
    ELSE IF WrapBreaks(currentLine, Head(words), width)
         THEN currentLine \o <<NL>> \o WrapWords(Head(words), Tail(words), width)
         ELSE WrapWords(WrapJoin(currentLine, Head(words)), Tail(words), width)

\* lines 105-120: one input line
WrapLine(line, width) ==
    LET words == Fields(line)
    IN IF Len(words) = 0 THEN WrapBlankLine
       ELSE WrapWords(words[1], Tail(words), width)

WrapText(text, width) ==
    IF WrapReturnsUnchanged(width) THEN text
    ELSE LET lines == Split(text, NL)
         IN Concat([k \in 1..Len(lines) |-> WrapLine(lines[k], width)])

\* utils.CalculateLineFromIndex: strings.Count(content[:index], "\n");
\* content[:index] panics when index > len(content)
CalculateLineFromIndex(content, index) ==
    Cardinality({k \in 1..index : content[k] = NL})


(***************************************************************************)
(* utils.FormatText and the out-of-range slices of utils.HighlightText     *)
(***************************************************************************)
\* color.New(color.Bold).Sprint(line): the line between the SGR sequences
\* ESC[1m and ESC[0m
Bold(line) == <<27, 91, 49, 109>> \o line \o <<27, 91, 48, 109>>

RECURSIVE ToUpper(_)
\* strings.ToUpper on ASCII text
ToUpper(s) ==
    IF s = <<>> THEN <<>>
    ELSE <<IF Head(s) \in 97..122 THEN Head(s) - 32 ELSE Head(s)>> \o ToUpper(Tail(s))

\* FormatText lines 13-19: one line of the text
FormatLine(line) ==
    IF ToUpper(line) = line /\ Len(line) > 0
    THEN Bold(line) \o <<NL, NL>>
    ELSE line \o <<NL>>

FormatText(text) ==
    LET lines == Split(text, NL)
    IN Concat([k \in 1..Len(lines) |-> FormatLine(lines[k])])

IsCurrentOffByOne(i, currentMatch) == i + 1 = currentMatch

\* HighlightText line 62: i == currentMatch
IsCurrent(i, currentMatch) == i = currentMatch

\* HighlightText lines 59-66: the unified span list before it is sorted
AllMatches(query, searchMatches, currentMatch, urlMatches) ==
    [k \in 1..Len(searchMatches) |->
        [start |-> searchMatches[k], end |-> searchMatches[k] + Len(query),
         isURL |-> FALSE, isCurrentSearch |-> IsCurrent(k - 1, currentMatch)]]
    \o [k \in 1..Len(urlMatches) |->
        [start |-> urlMatches[k][1], end |-> urlMatches[k][2],
         isURL |-> TRUE, isCurrentSearch |-> FALSE]]

\* HighlightText line 80: content[m.start:m.end] panics for a span that does
\* not lie in content
HighlightPanics(content, query, searchMatches, currentMatch, urlMatches) ==
    LET all == AllMatches(query, searchMatches, currentMatch, urlMatches)
    IN \E k \in 1..Len(all) :
          ~(0 <= all[k].start /\ all[k].start <= all[k].end
            /\ all[k].end <= Len(content))

SortSwapsOnTie(x, y) == x.start >= y.start

\* HighlightText line 70: allMatches[i].start > allMatches[j].start
SortSwaps(x, y) == x.start > y.start

SwapOverwrites(a, i, j) == [a EXCEPT ![i] = a[j]]

\* HighlightText line 71
Swap(a, i, j) == [a EXCEPT ![i] = a[j], ![j] = a[i]]

RECURSIVE SortInner(_, _, _)
\* HighlightText lines 69-73: the loop over j, from j on
SortInner(a, i, j) ==
    IF j > Len(a) THEN a
    ELSE SortInner(IF SortSwaps(a[i], a[j]) THEN Swap(a, i, j) ELSE a, i, j + 1)

RECURSIVE SortOuter(_, _)
\* HighlightText lines 68-74: the loop over i, from i on
SortOuter(a, i) ==
    IF i > Len(a) THEN a
    ELSE SortOuter(SortInner(a, i, i + 1), i + 1)

\* HighlightText lines 68-74: the exchange sort of the span list
SortMatches(a) == SortOuter(a, 1)

\* a slice expression content[i:j] is in range
InContent(content, i, j) == 0 <= i /\ i <= j /\ j <= Len(content)

\* one WriteString of HighlightText: the text written and the colour it is
\* written in
Segment(text, style) == [text |-> text, style |-> style]

\* HighlightText lines 81-87: the colour of a span
SpanStyle(mt) ==
    IF mt.isURL THEN "Url"
    ELSE IF mt.isCurrentSearch THEN "CurrentMatch"
    ELSE "SearchMatch"

RECURSIVE EmitFrom(_, _, _, _, _)
\* HighlightText lines 76-89: the walk over the sorted spans, from the k-th on;
\* a slice out of range panics
EmitFrom(content, all, k, lastIndex, segs) ==
    IF k > Len(all) THEN [panic |-> FALSE, lastIndex |-> lastIndex, segs |-> segs]
    ELSE LET mt == all[k]
             gap == mt.start > lastIndex
         IN IF (gap /\ ~InContent(content, lastIndex, mt.start))
               \/ ~InContent(content, mt.start, mt.end)
            THEN [panic |-> TRUE, lastIndex |-> lastIndex, segs |-> segs]
            ELSE EmitFrom(content, all, k + 1, mt.end,
                          segs
                          \o (IF gap
                              THEN <<Segment(Slice(content, lastIndex, mt.start), "Default")>>
                              ELSE <<>>)
                          \o <<Segment(Slice(content, mt.start, mt.end), SpanStyle(mt))>>)

EmitsTailNever(lastIndex, content) == FALSE

\* HighlightText line 91: lastIndex < len(content)
EmitsTail(lastIndex, content) == lastIndex < Len(content)

\* utils.HighlightText: allMatches as sorted and the segments written, in
\* order, or a panic
HighlightText(content, query, searchMatches, currentMatch, urlMatches) ==
    LET all == SortMatches(AllMatches(query, searchMatches, currentMatch, urlMatches))
        r == EmitFrom(content, all, 1, 0, <<>>)
    IN IF r.panic THEN [panic |-> TRUE, spans |-> all, segs |-> <<>>]
       ELSE [panic |-> FALSE, spans |-> all,
             segs |-> r.segs
                      \o (IF EmitsTail(r.lastIndex, content)
                          THEN <<Segment(Slice(content, r.lastIndex, Len(content)), "Default")>>
                          ELSE <<>>)]

(***************************************************************************)
(* The URL pattern of main, https?://[^\s/$.?#].[^\s]*, and                *)
(* Regexp.FindAllStringIndex                                               *)
(***************************************************************************)
\* \s of the pattern: \t \n \f \r and space
IsReSpace(b) == b \in {9, 10, 12, 13, 32}

RECURSIVE NonSpaceRunEnd(_, _)
\* the offset where the run of non-space bytes starting at i ends
NonSpaceRunEnd(s, i) ==
    IF i < Len(s) /\ ~IsReSpace(s[i + 1]) THEN NonSpaceRunEnd(s, i + 1) ELSE i

\* the end of the match of the pattern that starts at offset i, or -1
UrlMatchEnd(s, i) ==
    LET http == <<104, 116, 116, 112>>
        sep == <<58, 47, 47>>
        j == IF HasAt(s, http \o <<115>>, i) THEN i + 5 ELSE i + 4
    IN IF HasAt(s, http, i) /\ HasAt(s, sep, j) /\ j + 5 <= Len(s)
          /\ ~IsReSpace(s[j + 4]) /\ s[j + 4] \notin {47, 36, 46, 63, 35}
          /\ s[j + 5] # NL
       THEN NonSpaceRunEnd(s, j + 5)
       ELSE -1

RECURSIVE FindAllURLsFrom(_, _)
\* the leftmost matches from offset pos on, none overlapping another
FindAllURLsFrom(s, pos) ==
    LET starts == {i \in pos..Len(s) : UrlMatchEnd(s, i) # -1}
    IN IF starts = {} THEN <<>>
       ELSE LET i == CHOOSE x \in starts : \A y \in starts : x <= y
            IN <<(<<i, UrlMatchEnd(s, i)>>)>> \o FindAllURLsFrom(s, UrlMatchEnd(s, i))

FindAllURLs(s) == FindAllURLsFrom(s, 0)


(***************************************************************************)
(* pkg/model: the Model and its Update                                     *)
(***************************************************************************)
VARIABLES
    m,          \* the Model held by the event loop
    pending,    \* the commands returned by Update that have not delivered
                \* their completion message yet
    running,    \* "running", "quit" (tea.Quit was returned) or "panic"
    opened,     \* the page the browser was started on, <<base, title>>
    inFlightMax,    \* the model bound on the commands in flight
    origin,     \* history, kept where requests overlap: the title whose fetch
                \* delivered the article content and the wiki whose search
                \* delivered the results
    cmKind, cmArg, cmWiki, cmFails, cmResponse, cmMsgs, cmPc,   \* a command run
    fmContent, fmQuery, fmMatches, fmPc,    \* a call of FindMatches
    fmStart,                                \* its scan position, start
    wtText, wtWidth, wtOut, wtAgain, wtPc,  \* a call of WrapText
    hlContent, hlQuery, hlSearchMatches, hlCurrentMatch, hlUrlMatches,
    hlOut, hlPc                             \* a call of HighlightText

vars == <<m, pending, running, opened, inFlightMax, origin,
          cmKind, cmArg, cmWiki, cmFails, cmResponse, cmMsgs, cmPc,
          fmContent, fmQuery, fmMatches, fmPc, fmStart,
          wtText, wtWidth, wtOut, wtAgain, wtPc,
          hlContent, hlQuery, hlSearchMatches, hlCurrentMatch, hlUrlMatches,
          hlOut, hlPc>>

modelVars == <<m, pending, running, opened, inFlightMax, origin>>
cmdVars == <<cmKind, cmArg, cmWiki, cmFails, cmResponse, cmMsgs, cmPc>>
findVars == <<fmContent, fmQuery, fmMatches, fmPc, fmStart>>
wrapVars == <<wtText, wtWidth, wtOut, wtAgain, wtPc>>
highlightVars == <<hlContent, hlQuery, hlSearchMatches, hlCurrentMatch, hlUrlMatches,
                   hlOut, hlPc>>

MaxInputLen == 1        \* bytes typed into the text input
MaxResults == 2         \* titles in a search response
MaxPending == 1         \* commands in flight

wikiSelectionView == "wikiSelectionView"
searchResultsView == "searchResultsView"
articleView == "articleView"
searchArticleView == "searchArticleView"

\* New: wikiOptions
wikiOptions == <<"wikipedia", "arch">>

\* the i-th title of a search response: "T1", "T2", ...
Title(i) == <<84, SP, 48 + i>>

\* the responses of the search API: at most MaxResults titles
SearchPayloads == {[i \in 1..n |-> Title(i)] : n \in 0..MaxResults}

\* the article texts the readability extraction yields: "aaa", "a a\na" and
\* " a", a line that starts with a space
ArticlePayloads == {<<97, 97, 97>>, <<97, 32, 97, 10, 97>>, <<SP, 97>>}

\* the window sizes of tea.WindowSizeMsg, <<Width, Height>>
WindowSizes == {<<2, 6>>, <<MaxWidth, 6>>}

\* the keys pressed; those of one rune are typed into a focused input
RuneKeys == {"/", "n", "p", "o", "a"}

\* the runes the user types into a focused input; the other rune keys are
\* pressed where the input does not take them
TypedKeys == {"n", "a"}
Keys == {"q", "ctrl+c", "esc", "up", "down", "ctrl+u", "ctrl+d", "enter"} \cup RuneKeys

\* the byte a rune key types
KeyByte(key) ==
    CASE key = "/" -> 47 [] key = "n" -> 110 [] key = "p" -> 112
      [] key = "o" -> 111 [] key = "a" -> 97

\* New (lines 50-59) with the text input and the viewport main builds:
\* textinput.New() is not focused, its prompt is "> ", viewport.New(0, 0)
InitModel ==
    [state |-> wikiSelectionView,
     focused |-> FALSE, value |-> <<>>, prompt |-> "> ", charLimit |-> 150,
     results |-> <<>>, cursor |-> 0,
     statusMsg |-> <<"", "">>,
     selectedTitle |-> <<>>,
     articleContent |-> <<>>,
     searchType |-> "",
     wikiCursor |-> 0,
     vpWidth |-> 0, vpHeight |-> 0, vpLines |-> <<>>, yOffset |-> 0,
     searchQuery |-> <<>>,
     matchIndexes |-> <<>>,
     currentMatchIndex |-> 0,
     urlMatches |-> <<>>]

(***************************************************************************)
(* bubbles/viewport and bubbles/textinput, as far as Update uses them      *)
(***************************************************************************)
Max(a, b) == IF a >= b THEN a ELSE b
Min(a, b) == IF a <= b THEN a ELSE b

\* viewport.maxYOffset
MaxYOffset(mm) == Max(0, Len(mm.vpLines) - mm.vpHeight)

\* viewport.SetYOffset: the offset is clamped to [0, maxYOffset]
SetYOffset(mm, n) == [mm EXCEPT !.yOffset = Max(0, Min(n, MaxYOffset(mm)))]

\* viewport.SetContent: the lines of the content; an offset past the last
\* line goes to the bottom
SetContent(mm, content) ==
    LET m1 == [mm EXCEPT !.vpLines = Split(content, NL)]
    IN IF m1.yOffset > Len(m1.vpLines) - 1 THEN SetYOffset(m1, MaxYOffset(m1))
       ELSE m1

\* viewport.Update on a key: up and down scroll a line, ctrl+u and
\* ctrl+d half a page; nothing moves past the top or the bottom
ViewportUpdate(mm, key) ==
    LET atTop == mm.yOffset <= 0
        atBottom == mm.yOffset >= MaxYOffset(mm)
    IN CASE key = "up" ->
              IF atTop \/ Len(mm.vpLines) = 0 THEN mm ELSE SetYOffset(mm, mm.yOffset - 1)
         [] key = "down" ->
              IF atBottom \/ Len(mm.vpLines) = 0 THEN mm ELSE SetYOffset(mm, mm.yOffset + 1)
         [] key = "ctrl+u" ->
              IF atTop THEN mm ELSE SetYOffset(mm, mm.yOffset - (mm.vpHeight \div 2))
         [] key = "ctrl+d" ->
              IF atBottom THEN mm ELSE SetYOffset(mm, mm.yOffset + (mm.vpHeight \div 2))
         [] OTHER -> mm

\* textinput.Update on a key: a focused input takes the rune typed at its
\* end, ctrl+u deletes what is before the cursor, which is at the end
TextInputUpdate(mm, key) ==
    IF ~mm.focused THEN mm
    ELSE IF key \in RuneKeys /\ Len(mm.value) < mm.charLimit
         THEN [mm EXCEPT !.value = Append(@, KeyByte(key))]
    ELSE IF key = "ctrl+u" THEN [mm EXCEPT !.value = <<>>]
    ELSE mm

\* lines 224-225: the end of Update, reached by every path that does not return
UpdateEnd(mm, key) == TextInputUpdate(ViewportUpdate(mm, key), key)


(***************************************************************************)
(* Model.Update.  A handler yields its Model, the command it returns,      *)
(* whether that command is tea.Quit, the page it started the browser on,   *)
(* and whether it panicked (a slice out of range) instead of returning;    *)
(* m is then the handler's Model at the statement that panicked.           *)
(***************************************************************************)
NoCmd == <<>>
NoPage == <<>>

Return(mm, cmd) ==
    [m |-> mm, cmd |-> cmd, quit |-> FALSE, panic |-> FALSE, page |-> NoPage]
Quit(mm) ==
    [m |-> mm, cmd |-> NoCmd, quit |-> TRUE, panic |-> FALSE, page |-> NoPage]
Panic(mm) ==
    [m |-> mm, cmd |-> NoCmd, quit |-> FALSE, panic |-> TRUE, page |-> NoPage]

\* wiki.PerformSearch(term, wikiType) and wiki.FetchArticle(title, wikiType)
PerformSearch(term, wikiType) == <<[kind |-> "search", arg |-> term, wiki |-> wikiType]>>
FetchArticle(title, wikiType) == <<[kind |-> "fetch", arg |-> title, wiki |-> wikiType]>>

\* the viewport's content wrapped again instead of the article
ResizeSourceWrapped(mm) == Concat([k \in 1..Len(mm.vpLines) |-> mm.vpLines[k] \o <<NL>>])

\* line 75: the text that is wrapped on a resize, m.articleContent
ResizeSource(mm) == mm.articleContent

\* lines 72-76
OnWindowSize(mm, size) ==
    LET m1 == [mm EXCEPT !.vpWidth = size[1], !.vpHeight = size[2] - 4]
    IN Return(SetContent(m1, WrapText(ResizeSource(m1), m1.vpWidth)), NoCmd)

\* a focused input takes the key instead
OnQuitKeySwallowedByInput(mm) == IF mm.focused THEN Return(mm, NoCmd) ELSE Quit(mm)

\* lines 80-81
OnQuitKey(mm) == Quit(mm)

OnEscClearsInSearchOnly(mm) ==
    IF mm.state = searchArticleView
    THEN Return([mm EXCEPT !.state = searchResultsView, !.articleContent = <<>>,
                           !.focused = TRUE], NoCmd)
    ELSE IF mm.state = articleView
    THEN Return([mm EXCEPT !.state = searchResultsView, !.focused = TRUE], NoCmd)
    ELSE IF mm.state = searchResultsView
    THEN Return([mm EXCEPT !.state = wikiSelectionView, !.focused = FALSE], NoCmd)
    ELSE Quit(mm)

OnEscKeepsArticle(mm) ==
    IF mm.state \in {articleView, searchArticleView}
    THEN Return([mm EXCEPT !.state = searchResultsView, !.focused = TRUE], NoCmd)
    ELSE IF mm.state = searchResultsView
    THEN Return([mm EXCEPT !.state = wikiSelectionView, !.focused = FALSE], NoCmd)
    ELSE Quit(mm)

\* lines 83-95
OnEsc(mm) ==
    IF mm.state \in {articleView, searchArticleView}
    THEN Return([mm EXCEPT !.state = searchResultsView, !.articleContent = <<>>,
                           !.focused = TRUE], NoCmd)
    ELSE IF mm.state = searchResultsView
    THEN Return([mm EXCEPT !.state = wikiSelectionView, !.focused = FALSE], NoCmd)
    ELSE Quit(mm)

\* lines 97-104
OnSlash(mm) ==
    IF mm.state = articleView
    THEN Return([mm EXCEPT !.state = searchArticleView, !.focused = TRUE,
                           !.prompt = "/", !.charLimit = 100], NoCmd)
    ELSE Return(UpdateEnd(mm, "/"), NoCmd)

NextMatchClamped(i, n) == IF i + 1 < n THEN i + 1 ELSE i

\* line 108
NextMatch(i, n) == (i + 1) % n

\* line 113
PrevMatch(i, n) == (i - 1 + n) % n

\* lines 109, 114, 184: scroll to the line of a match; content[:index] panics
\* when index > len(content)
ScrollToMatch(mm, key) ==
    LET index == mm.matchIndexes[mm.currentMatchIndex + 1]
    IN IF index > Len(mm.articleContent) THEN Panic(mm)
       ELSE Return(UpdateEnd(SetYOffset(mm, CalculateLineFromIndex(mm.articleContent, index)),
                             key), NoCmd)

\* lines 106-110
OnNext(mm) ==
    IF mm.state = articleView /\ Len(mm.matchIndexes) > 0
    THEN ScrollToMatch([mm EXCEPT !.currentMatchIndex =
                            NextMatch(mm.currentMatchIndex, Len(mm.matchIndexes))], "n")
    ELSE Return(UpdateEnd(mm, "n"), NoCmd)

\* lines 111-115
OnPrev(mm) ==
    IF mm.state = articleView /\ Len(mm.matchIndexes) > 0
    THEN ScrollToMatch([mm EXCEPT !.currentMatchIndex =
                            PrevMatch(mm.currentMatchIndex, Len(mm.matchIndexes))], "p")
    ELSE Return(UpdateEnd(mm, "p"), NoCmd)

\* lines 119-121 and 123-125
CursorUp(cursor, n) == IF cursor > 0 THEN cursor - 1 ELSE cursor

CursorDownUnclamped(cursor, n) == cursor + 1

\* lines 131-133 and 135-137
CursorDown(cursor, n) == IF cursor < n - 1 THEN cursor + 1 ELSE cursor

\* lines 116-126
OnUp(mm, key) ==
    LET m1 == IF mm.state = searchResultsView
              THEN [mm EXCEPT !.cursor = CursorUp(mm.cursor, Len(mm.results))]
              ELSE IF mm.state = wikiSelectionView
              THEN [mm EXCEPT !.wikiCursor = CursorUp(mm.wikiCursor, Len(wikiOptions))]
              ELSE mm
    IN Return(UpdateEnd(m1, key), NoCmd)

\* lines 128-138
OnDown(mm, key) ==
    LET m1 == IF mm.state = searchResultsView
              THEN [mm EXCEPT !.cursor = CursorDown(mm.cursor, Len(mm.results))]
              ELSE IF mm.state = wikiSelectionView
              THEN [mm EXCEPT !.wikiCursor = CursorDown(mm.wikiCursor, Len(wikiOptions))]
              ELSE mm
    IN Return(UpdateEnd(m1, key), NoCmd)

\* lines 140-144
OnScroll(mm, key) ==
    IF mm.state = articleView THEN Return(ViewportUpdate(mm, key), NoCmd)
    ELSE Return(UpdateEnd(mm, key), NoCmd)

RECURSIVE ReplaceAll(_, _, _)
\* strings.ReplaceAll for one-byte strings
ReplaceAll(s, old, new) ==
    IF s = <<>> THEN <<>>
    ELSE <<IF Head(s) = old THEN new ELSE Head(s)>> \o ReplaceAll(Tail(s), old, new)

PageURLRawTitle(searchType, selectedTitle) ==
    <<IF searchType = "arch" THEN "https://wiki.archlinux.org/index.php/"
      ELSE "https://en.wikipedia.org/wiki/",
      selectedTitle>>

\* lines 149-154: the page of a title
PageURL(searchType, selectedTitle) ==
    <<IF searchType = "arch" THEN "https://wiki.archlinux.org/index.php/"
      ELSE "https://en.wikipedia.org/wiki/",
      ReplaceAll(selectedTitle, SP, 95)>>

\* lines 146-169: the browser is started, by the launcher of linux, darwin or
\* windows, and the program quits without waiting for it
OnOpen(mm) ==
    IF mm.state = searchResultsView /\ Len(mm.results) > 0
    THEN [Quit(mm) EXCEPT !.page = PageURL(mm.searchType, mm.results[mm.cursor + 1])]
    ELSE Return(UpdateEnd(mm, "o"), NoCmd)

SubmitMatchesSwapped(content, value) == FindMatches(value, content)

\* line 179: utils.FindMatches(m.articleContent, m.searchQuery)
SubmitMatches(content, value) == FindMatches(content, value)

HasTermAlways(value) == TRUE

\* line 188: m.textInput.Value() != ""
HasTerm(value) == value # <<>>

\* lines 171-198
OnEnter(mm) ==
    IF mm.state = wikiSelectionView
    THEN Return([mm EXCEPT !.searchType = wikiOptions[mm.wikiCursor + 1],
                           !.state = searchResultsView, !.focused = TRUE], NoCmd)
    ELSE IF mm.state = searchArticleView
    THEN LET m1 == [mm EXCEPT !.searchQuery = mm.value,
                              !.matchIndexes = SubmitMatches(mm.articleContent, mm.value),
                              !.currentMatchIndex = 0,
                              !.focused = FALSE,
                              !.state = articleView]
         IN IF Len(m1.matchIndexes) > 0
            THEN IF m1.matchIndexes[1] > Len(m1.articleContent) THEN Panic(m1)
                 ELSE Return(SetYOffset(m1, CalculateLineFromIndex(m1.articleContent,
                                                                  m1.matchIndexes[1])), NoCmd)
            ELSE Return(m1, NoCmd)
    ELSE IF mm.focused
    THEN IF HasTerm(mm.value)
         THEN Return([mm EXCEPT !.statusMsg = <<"Searching...", "">>, !.focused = FALSE],
                     PerformSearch(mm.value, mm.searchType))
         ELSE Return(UpdateEnd(mm, "enter"), NoCmd)
    ELSE IF mm.state = searchResultsView /\ Len(mm.results) > 0
    THEN LET title == mm.results[mm.cursor + 1]
         IN Return([mm EXCEPT !.selectedTitle = title,
                              !.statusMsg = <<"Fetching article...", "">>],
                   FetchArticle(title, mm.searchType))
    ELSE Return(UpdateEnd(mm, "enter"), NoCmd)

\* a key without a case of its own: only lines 224-225
OnOtherKey(mm, key) == Return(UpdateEnd(mm, key), NoCmd)

ErrorStatusBlank(err) == <<"", "">>

\* lines 202 and 212: fmt.Sprintf("Error: %v", msg.Err)
ErrorStatus(err) == <<"Error", err>>

\* lines 200-208; err is "" for a response.  The status is the number of
\* results found, without the text of the input that line 206 adds to it
OnSearchMsg(mm, results, err) ==
    IF err # ""
    THEN Return([mm EXCEPT !.statusMsg = ErrorStatus(err), !.focused = TRUE], NoCmd)
    ELSE Return([mm EXCEPT !.results = results,
                           !.statusMsg = <<"Found", Len(results)>>,
                           !.cursor = 0], NoCmd)

\* lines 210-221
OnArticleMsg(mm, content, err) ==
    IF err # ""
    THEN Return([mm EXCEPT !.statusMsg = ErrorStatus(err)], NoCmd)
    ELSE LET m1 == [mm EXCEPT !.state = articleView,
                              !.articleContent = content,
                              !.urlMatches = FindAllURLs(content),
                              !.statusMsg = <<"Displaying article", mm.selectedTitle>>]
         IN Return(SetContent(m1, WrapText(m1.articleContent, m1.vpWidth)), NoCmd)

\* View lines 273-277: the article is rendered in articleView, and the render
\* panics when a span does not lie in the wrapped text
ViewPanics(mm) ==
    /\ mm.state = articleView
    /\ HighlightPanics(WrapText(FormatText(mm.articleContent), mm.vpWidth),
                       mm.searchQuery, mm.matchIndexes, mm.currentMatchIndex,
                       mm.urlMatches)


(***************************************************************************)
(* The event loop: one message at a time is handed to Update, the Model    *)
(* it returns replaces the old one, its command starts running, and the    *)
(* View of the new Model is rendered.                                      *)
(***************************************************************************)
\* nothing was delivered yet
NoOrigin == [kept |-> FALSE, article |-> <<>>, results |-> ""]

\* the history after a step, where it is kept
Keep(new) == IF origin.kept THEN new ELSE origin

IdleFind ==
    /\ fmContent = <<>> /\ fmQuery = <<>> /\ fmMatches = <<>> /\ fmPc = "idle"
    /\ fmStart = 0
IdleWrap == wtText = <<>> /\ wtWidth = 0 /\ wtOut = <<>> /\ wtAgain = <<>> /\ wtPc = "idle"
IdleHighlight ==
    /\ hlContent = <<>> /\ hlQuery = <<>> /\ hlSearchMatches = <<>>
    /\ hlCurrentMatch = 0 /\ hlUrlMatches = <<>>
    /\ hlOut = [panic |-> FALSE, spans |-> <<>>, segs |-> <<>>] /\ hlPc = "idle"
IdleModel ==
    /\ m = InitModel /\ pending = <<>> /\ running = "idle" /\ opened = NoPage
    /\ inFlightMax = 0
    /\ origin = NoOrigin
IdleCmd ==
    /\ cmKind = "" /\ cmArg = <<>> /\ cmWiki = "" /\ cmFails = {} /\ cmResponse = <<>>
    /\ cmMsgs = <<>> /\ cmPc = "idle"

Init ==
    /\ m = InitModel
    /\ pending = <<>>
    /\ running = "running"
    /\ opened = NoPage
    /\ inFlightMax = MaxPending
    /\ origin = NoOrigin
    /\ IdleFind
    /\ IdleWrap
    /\ IdleHighlight
    /\ IdleCmd

\* the loop hands a message to Update, which ends as ret says
Step(ret) ==
    /\ running = "running"
    /\ Len(pending) + Len(ret.cmd) <= inFlightMax
    /\ m' = ret.m
    /\ pending' = pending \o ret.cmd
    /\ opened' = ret.page
    /\ origin' = Keep([origin EXCEPT !.article =
                                IF ret.m.articleContent = <<>> THEN <<>> ELSE @])
    /\ running' = IF ret.panic \/ (~ret.quit /\ ViewPanics(ret.m)) THEN "panic"
                  ELSE IF ret.quit THEN "quit"
                  ELSE "running"
    /\ UNCHANGED <<inFlightMax, findVars, wrapVars, highlightVars, cmdVars>>

\* the model bound on the text typed: a key that a focused input takes is
\* pressed only if it is one of TypedKeys and the input has room
HasRoom(key) == m.focused => (key \in TypedKeys /\ Len(m.value) < MaxInputLen)

WindowSize == \E size \in WindowSizes : Step(OnWindowSize(m, size))

KeyQuit == \E key \in {"q", "ctrl+c"} : Step(OnQuitKey(m))

KeyEsc == Step(OnEsc(m))

KeySlash == (m.state = articleView \/ HasRoom("/")) /\ Step(OnSlash(m))

KeyNext == HasRoom("n") /\ Step(OnNext(m))

KeyPrev == HasRoom("p") /\ Step(OnPrev(m))

KeyUp == Step(OnUp(m, "up"))

KeyDown == Step(OnDown(m, "down"))

KeyScroll == \E key \in {"ctrl+u", "ctrl+d"} : Step(OnScroll(m, key))

KeyOpen ==
    ((m.state = searchResultsView /\ Len(m.results) > 0) \/ HasRoom("o"))
    /\ Step(OnOpen(m))

KeyEnter == Step(OnEnter(m))

KeyOther == HasRoom("a") /\ Step(OnOtherKey(m, "a"))

\* the errors a command reports
Errors == {"request failed"}

\* pending without its i-th command
Without(i) == SubSeq(pending, 1, i - 1) \o SubSeq(pending, i + 1, Len(pending))

\* a command's completion message reaches the loop
Complete(i, ret, from) ==
    /\ running = "running"
    /\ m' = ret.m
    /\ pending' = Without(i)
    /\ running' = IF ViewPanics(ret.m) THEN "panic" ELSE "running"
    /\ opened' = opened
    /\ origin' = Keep(from)
    /\ UNCHANGED <<inFlightMax, findVars, wrapVars, highlightVars, cmdVars>>

\* a search command delivers SearchMsg{Results: results}
SearchMsgResults(results) ==
    \E i \in 1..Len(pending) :
        pending[i].kind = "search" /\ Complete(i, OnSearchMsg(m, results, ""),
                                             [origin EXCEPT !.results = pending[i].wiki])

\* a search command delivers SearchMsg{Err: err}
SearchMsgErr(err) ==
    \E i \in 1..Len(pending) :
        pending[i].kind = "search" /\ Complete(i, OnSearchMsg(m, <<>>, err), origin)

\* a fetch command delivers ArticleMsg{Content: content}
ArticleMsgContent(content) ==
    \E i \in 1..Len(pending) :
        pending[i].kind = "fetch" /\ Complete(i, OnArticleMsg(m, content, ""),
                                            [origin EXCEPT !.article = pending[i].arg])

\* a fetch command delivers ArticleMsg{Err: err}
ArticleMsgErr(err) ==
    \E i \in 1..Len(pending) :
        pending[i].kind = "fetch" /\ Complete(i, OnArticleMsg(m, <<>>, err), origin)

SearchMsg ==
    \/ \E results \in SearchPayloads : SearchMsgResults(results)
    \/ \E err \in Errors : SearchMsgErr(err)

ArticleMsg ==
    \/ \E content \in ArticlePayloads : ArticleMsgContent(content)
    \/ \E err \in Errors : ArticleMsgErr(err)

Next ==
    \/ WindowSize
    \/ KeyQuit
    \/ KeyEsc
    \/ KeySlash
    \/ KeyNext
    \/ KeyPrev
    \/ KeyUp
    \/ KeyDown
    \/ KeyScroll
    \/ KeyOpen
    \/ KeyEnter
    \/ KeyOther
    \/ SearchMsg
    \/ ArticleMsg

Spec == Init /\ [][Next]_vars

MaxInFlight == 2        \* commands in flight when requests overlap

\* as Init, with room for a second command while the first is in flight
InitRequests ==
    /\ m = InitModel
    /\ pending = <<>>
    /\ running = "running"
    /\ opened = NoPage
    /\ inFlightMax = MaxInFlight
    /\ origin = [NoOrigin EXCEPT !.kept = TRUE]
    /\ IdleFind
    /\ IdleWrap
    /\ IdleHighlight
    /\ IdleCmd

\* the keys and messages that issue, complete and choose requests, in a
\* window that is never resized
NextRequests ==
    \/ KeyQuit
    \/ KeyEsc
    \/ KeyUp
    \/ KeyDown
    \/ KeyOpen
    \/ KeyEnter
    \/ KeyOther
    \/ SearchMsg
    \/ ArticleMsg

SpecRequests == InitRequests /\ [][NextRequests]_vars

(***************************************************************************)
(* Calls of the pure functions on every input within the bounds            *)
(***************************************************************************)
\* "Hello World" and "world"
HelloWorld == <<72, 101, 108, 108, 111, 32, 87, 111, 114, 108, 100>>
World == <<119, 111, 114, 108, 100>>

FindContents ==
    Strings({RuneLowerA, RuneUpperA, RuneKelvin, RuneUpperAStroke}, MaxContentLen)
    \cup {HelloWorld}

FindQueries ==
    Strings({RuneLowerA, RuneUpperA, RuneLowerK, RuneLowerAStroke}, MaxQueryLen)
    \cup {World}

InitFind ==
    /\ fmContent \in FindContents
    /\ fmQuery \in FindQueries
    /\ fmMatches = <<>>
    /\ fmPc = "call"
    /\ fmStart = 0
    /\ IdleModel
    /\ IdleWrap
    /\ IdleHighlight
    /\ IdleCmd

CallFindMatches ==
    /\ fmPc = "call"
    /\ fmMatches' = FindMatches(fmContent, fmQuery)
    /\ fmPc' = "done"
    /\ UNCHANGED <<fmContent, fmQuery, fmStart, modelVars, wrapVars, highlightVars, cmdVars>>

NextFind == CallFindMatches

SpecFind == InitFind /\ [][NextFind]_vars

\* FindMatches statement by statement: the call is at line 26
InitFindLoop ==
    /\ fmContent \in FindContents
    /\ fmQuery \in FindQueries
    /\ fmMatches = <<>>
    /\ fmPc = "enter"
    /\ fmStart = 0
    /\ IdleModel
    /\ IdleWrap
    /\ IdleHighlight
    /\ IdleCmd

\* lines 26-32: nil is returned for the empty query, else the loop is entered
FindEnter ==
    /\ fmPc = "enter"
    /\ fmPc' = IF FindMatchesReturnsNil(fmQuery) THEN "done" ELSE "loop"
    /\ UNCHANGED <<fmContent, fmQuery, fmMatches, fmStart,
                   modelVars, wrapVars, highlightVars, cmdVars>>

\* lines 33-40: one pass of the loop; lowerContent[start:] panics when start
\* is past the end of lowerContent
FindIterate ==
    /\ fmPc = "loop"
    /\ LET lowerContent == ToLower(fmContent)
           lowerQuery == ToLower(fmQuery)
           i == Index(Slice(lowerContent, fmStart, Len(lowerContent)), lowerQuery)
       IN IF fmStart > Len(lowerContent)
          THEN fmPc' = "panic" /\ UNCHANGED <<fmMatches, fmStart>>
          ELSE IF i = -1
          THEN fmPc' = "done" /\ UNCHANGED <<fmMatches, fmStart>>
          ELSE /\ fmMatches' = Append(fmMatches, FindOffset(fmStart, i))
               /\ fmStart' = FindAdvance(fmStart, i, lowerQuery)
               /\ fmPc' = "loop"
    /\ UNCHANGED <<fmContent, fmQuery, modelVars, wrapVars, highlightVars, cmdVars>>

NextFindLoop == FindEnter \/ FindIterate

\* the call runs on: nothing else is scheduled in it
SpecFindLoop == InitFindLoop /\ [][NextFindLoop]_vars /\ WF_vars(NextFindLoop)

WrapTexts == Strings({RuneLowerA, RuneLowerB, <<SP>>, <<NL>>}, MaxTextLen)

WrapWidths == (-1)..MaxWidth

InitWrap ==
    /\ wtText \in WrapTexts
    /\ wtWidth \in WrapWidths
    /\ wtOut = <<>>
    /\ wtAgain = <<>>
    /\ wtPc = "call"
    /\ IdleModel
    /\ IdleFind
    /\ IdleHighlight
    /\ IdleCmd

CallWrapText ==
    /\ wtPc = "call"
    /\ wtOut' = WrapText(wtText, wtWidth)
    /\ wtPc' = "wrapped"
    /\ UNCHANGED <<wtText, wtWidth, wtAgain, modelVars, findVars, highlightVars, cmdVars>>

\* the output is wrapped again at the same width
CallWrapTextAgain ==
    /\ wtPc = "wrapped"
    /\ wtAgain' = WrapText(wtOut, wtWidth)
    /\ wtPc' = "rewrapped"
    /\ UNCHANGED <<wtText, wtWidth, wtOut, modelVars, findVars, highlightVars, cmdVars>>

NextWrap == CallWrapText \/ CallWrapTextAgain

SpecWrap == InitWrap /\ [][NextWrap]_vars

MaxHlLen == 3           \* bytes of the content highlighted
MaxHlSearch == 2        \* search offsets handed to HighlightText
MaxHlUrls == 2          \* URL spans handed to HighlightText

\* "", "a", "ab", "abc", ... and "aaaa"
HlContents ==
    {[i \in 1..n |-> 96 + i] : n \in 0..MaxHlLen} \cup {<<97, 97, 97, 97>>}

\* "", "a", "aa", ...
HlQueries == Strings({RuneLowerA}, MaxQueryLen)

\* the offsets of the spans handed over
HlOffsets == 0..MaxHlLen

\* the URL spans handed over, <<start, end>>
HlUrlSpans == {p \in HlOffsets \X HlOffsets : p[1] <= p[2]}

\* HighlightText is called with the matches FindMatches finds or with any
\* offsets, in any order, and with any URL spans, in any order
InitHighlight ==
    /\ hlContent \in HlContents
    /\ hlQuery \in HlQueries
    /\ hlSearchMatches \in SeqsUpTo(HlOffsets, MaxHlSearch) \cup {FindMatches(hlContent, hlQuery)}
    /\ hlCurrentMatch \in (-1)..MaxHlSearch
    /\ hlUrlMatches \in SeqsUpTo(HlUrlSpans, MaxHlUrls)
    /\ hlOut = [panic |-> FALSE, spans |-> <<>>, segs |-> <<>>]
    /\ hlPc = "call"
    /\ IdleModel
    /\ IdleFind
    /\ IdleWrap
    /\ IdleCmd

CallHighlightText ==
    /\ hlPc = "call"
    /\ hlOut' = HighlightText(hlContent, hlQuery, hlSearchMatches, hlCurrentMatch,
                              hlUrlMatches)
    /\ hlPc' = "done"
    /\ UNCHANGED <<hlContent, hlQuery, hlSearchMatches, hlCurrentMatch, hlUrlMatches,
                   modelVars, findVars, wrapVars, cmdVars>>

NextHighlight == CallHighlightText

SpecHighlight == InitHighlight /\ [][NextHighlight]_vars


(***************************************************************************)
(* pkg/wiki: the commands.  A command is a closure over the term or title  *)
(* and the wiki type; the loop runs it in a goroutine of its own and hands *)
(* the message it returns to Update.  Every call in it that blocks is      *)
(* bounded by the HTTP client's timeout of five seconds.                   *)
(***************************************************************************)
\* the calls of PerformSearch's closure that can fail, in the order made
SearchCalls == <<"NewRequest", "Do", "StatusCode", "ReadAll", "Unmarshal">>

\* the calls of FetchArticle's closure that can fail, in the order made
FetchCalls == <<"NewRequest", "Do", "StatusCode", "ReadAll", "Unmarshal", "Parse",
                "FromReader">>

RECURSIVE FirstFailure(_, _, _)
\* the calls are made in order and the closure returns at the first one that
\* fails; "" when none does
FirstFailure(calls, k, fails) ==
    IF k > Len(calls) THEN ""
    ELSE IF calls[k] \in fails THEN calls[k]
    ELSE FirstFailure(calls, k + 1, fails)

ErrMsgKeepsPayload(type, err, response) == [type |-> type, payload |-> response, err |-> err]

\* SearchMsg{Err: err} and ArticleMsg{Err: err}: the payload is left at its
\* zero value
ErrMsg(type, err, response) == [type |-> type, payload |-> <<>>, err |-> err]

\* SearchMsg{Results: data.Query.Search} and ArticleMsg{Content: article.TextContent}
PayloadMsg(type, response) == [type |-> type, payload |-> response, err |-> ""]

\* the one return statement a run of the closure reaches
RunClosure(type, calls, fails, response) ==
    LET err == FirstFailure(calls, 1, fails)
    IN IF err # "" THEN ErrMsg(type, err, response) ELSE PayloadMsg(type, response)

\* the closure PerformSearch returns
RunSearch(fails, response) == RunClosure("SearchMsg", SearchCalls, fails, response)

\* the closure FetchArticle returns
RunFetch(fails, response) == RunClosure("ArticleMsg", FetchCalls, fails, response)

\* a command is issued for a term or a title; the calls in cmFails fail when
\* they are made, and cmResponse is what the server's response holds
InitCmd ==
    /\ cmKind \in {"search", "fetch"}
    /\ cmArg \in {<<KeyByte("a")>>, Title(1)}
    /\ cmWiki \in Range(wikiOptions)
    /\ cmFails \in SUBSET Range(IF cmKind = "search" THEN SearchCalls ELSE FetchCalls)
    /\ cmResponse \in (IF cmKind = "search" THEN SearchPayloads ELSE ArticlePayloads)
    /\ cmMsgs = <<>>
    /\ cmPc = "issued"
    /\ IdleModel
    /\ IdleFind
    /\ IdleWrap
    /\ IdleHighlight

\* the goroutine runs the closure and sends the message it returns to the loop
RunCmd ==
    /\ cmPc = "issued"
    /\ cmMsgs' = Append(cmMsgs, IF cmKind = "search" THEN RunSearch(cmFails, cmResponse)
                                ELSE RunFetch(cmFails, cmResponse))
    /\ cmPc' = "done"
    /\ UNCHANGED <<cmKind, cmArg, cmWiki, cmFails, cmResponse,
                   modelVars, findVars, wrapVars, highlightVars>>

NextCmd == RunCmd

\* the goroutine of a command is scheduled, and the closure returns
SpecCmd == InitCmd /\ [][NextCmd]_vars /\ WF_vars(NextCmd)


(***************************************************************************)
(* Properties                                                              *)
(***************************************************************************)
\* the lines WrapText wrote: every line it writes ends with a newline
OutputLines(out) ==
    LET pieces == Split(out, NL) IN SubSeq(pieces, 1, Len(pieces) - 1)

\* s is strictly ascending
StrictlyAscending(s) == \A k \in 1..(Len(s) - 1) : s[k] < s[k + 1]

\* the offsets at which sub occurs in s
Occurrences(s, sub) == {o \in 0..(Len(s) - Len(sub)) : HasAt(s, sub, o)}

\* C1: the result cursor is an index of a non-empty results list after every
\* message; up and down move it by one and stop at the first and the last
\* result, and a search response replaces the results and puts it at 0.
C1_ResultCursorInRange ==
    [][/\ m'.results # <<>> => m'.cursor \in 0..(Len(m'.results) - 1)
       /\ KeyUp /\ m.state = searchResultsView =>
             /\ m'.cursor = Max(m.cursor - 1, 0)
             /\ m'.results = m.results
       /\ KeyDown /\ m.state = searchResultsView =>
             /\ m'.cursor = Min(m.cursor + 1, Max(Len(m.results) - 1, 0))
             /\ m'.results = m.results
       /\ \A results \in SearchPayloads :
             SearchMsgResults(results) => m'.results = results /\ m'.cursor = 0
      ]_vars

\* C1 witness: down has moved the cursor to the last of several results
C1_CursorAtLastResult ==
    /\ running = "running"
    /\ m.state = searchResultsView
    /\ Len(m.results) >= 2
    /\ m.cursor = Len(m.results) - 1

\* C2: in articleView with n > 0 matches, n sets currentMatchIndex to
\* (i+1) mod n and p to (i-1+n) mod n: next of the last index is 0, prev of 0
\* is n-1 and prev undoes next; the index is always in [0, n).
C2_MatchNavigationCyclic ==
    [][LET n == Len(m.matchIndexes)
           i == m.currentMatchIndex
       IN /\ Len(m'.matchIndexes) > 0 =>
                m'.currentMatchIndex \in 0..(Len(m'.matchIndexes) - 1)
          /\ KeyNext /\ m.state = articleView /\ n > 0 =>
                /\ m'.currentMatchIndex = (IF i = n - 1 THEN 0 ELSE i + 1)
                /\ PrevMatch(m'.currentMatchIndex, n) = i
                /\ m'.matchIndexes = m.matchIndexes
          /\ KeyPrev /\ m.state = articleView /\ n > 0 =>
                /\ m'.currentMatchIndex = (IF i = 0 THEN n - 1 ELSE i - 1)
                /\ NextMatch(m'.currentMatchIndex, n) = i
                /\ m'.matchIndexes = m.matchIndexes
      ]_vars

\* C2 witness: the article is shown with three matches and the last one is
\* the current one, which only n and p make it
C2_AtLastMatch ==
    /\ running = "running"
    /\ m.state = articleView
    /\ Len(m.matchIndexes) = 3
    /\ m.currentMatchIndex = 2

\* C3: for a non-empty query FindMatches returns, strictly ascending, exactly
\* the offsets at which the lowered query occurs in the lowered content,
\* overlapping occurrences included.
C3_FindMatchesExact ==
    fmPc = "done" /\ fmQuery # <<>> =>
        /\ StrictlyAscending(fmMatches)
        /\ Range(fmMatches) = Occurrences(ToLower(fmContent), ToLower(fmQuery))
        /\ (fmContent = <<97, 97, 97, 97>> /\ fmQuery = <<97, 97>> => fmMatches = <<0, 1, 2>>)
        /\ (fmContent = HelloWorld /\ fmQuery = World => fmMatches = <<6>>)

\* C3 witness: "aa" was looked for in "aAaa" and its three overlapping
\* occurrences were found
C3_OverlappingFound ==
    /\ fmPc = "done"
    /\ fmContent = <<97, 65, 97, 97>>
    /\ fmQuery = <<97, 97>>
    /\ fmMatches = <<0, 1, 2>>

\* C4: FindMatches of an empty query is the empty sequence, whatever the content.
C4_EmptyQueryNoMatches ==
    fmPc = "done" /\ fmQuery = <<>> => fmMatches = <<>>

\* C4 witness: the empty query was looked for in a content that is not empty
C4_EmptyQueryCalled ==
    fmPc = "done" /\ fmQuery = <<>> /\ Len(fmContent) >= 2

\* C5: every offset o returned by FindMatches lies with o + len(query) in the
\* original content, and the original content's slice [o, o+len(query)) is
\* the query ignoring case.
C5_OffsetsIndexOriginal ==
    fmPc = "done" =>
        \A k \in 1..Len(fmMatches) :
            LET o == fmMatches[k]
            IN /\ o + Len(fmQuery) <= Len(fmContent)
               /\ ToLower(Slice(fmContent, o, o + Len(fmQuery))) = ToLower(fmQuery)

\* C6: for width > 0 no line WrapText writes is longer than width, unless the
\* line is a single word that is itself longer than width.
C6_LinesFitWidth ==
    wtPc # "call" /\ wtWidth > 0 =>
        \A k \in 1..Len(OutputLines(wtOut)) :
            LET line == OutputLines(wtOut)[k]
            IN Len(line) > wtWidth => Fields(line) = <<line>>

\* C6 witness: a line was broken, and a line that fills the width holds two words
C6_BrokenAtWidth ==
    /\ wtPc = "wrapped"
    /\ wtWidth > 0
    /\ Len(OutputLines(wtOut)) > Len(Split(wtText, NL))
    /\ \E k \in 1..Len(OutputLines(wtOut)) :
          /\ Len(OutputLines(wtOut)[k]) = wtWidth
          /\ Len(Fields(OutputLines(wtOut)[k])) = 2

\* C7: for width > 0 the words of the output are the words of the text, in
\* order, and a word longer than width is alone on its line.
C7_WordsPreserved ==
    wtPc # "call" /\ wtWidth > 0 =>
        /\ Fields(wtOut) = Fields(wtText)
        /\ \A k \in 1..Len(OutputLines(wtOut)) :
              LET words == Fields(OutputLines(wtOut)[k])
              IN (\E j \in 1..Len(words) : Len(words[j]) > wtWidth) =>
                    OutputLines(wtOut)[k] = words[1]

\* C7 witness: the text has a word longer than the width between two other words
C7_LongWordBetweenWords ==
    /\ wtPc = "wrapped"
    /\ wtWidth > 0
    /\ Len(Fields(wtText)) = 3
    /\ Len(Fields(wtText)[2]) > wtWidth
    /\ Len(Fields(Split(wtText, NL)[1])) = 3

\* C8 as claimed: wrapping the output again at the same width gives the output.
C8_RewrapIdempotent ==
    wtPc = "rewrapped" /\ wtWidth > 0 => wtAgain = wtOut

\* C8 as amended: wrapping the output again at the same width gives the same
\* lines followed by one more empty line.
C8_RewrapAddsOneLine ==
    wtPc = "rewrapped" /\ wtWidth > 0 => wtAgain = wtOut \o <<NL>>

\* C8 witness: a text whose line was broken has been wrapped twice
C8_RewrappedBrokenText ==
    /\ wtPc = "rewrapped"
    /\ wtWidth > 0
    /\ Len(OutputLines(wtOut)) > Len(Split(wtText, NL))
    /\ \E k \in 1..Len(OutputLines(wtOut)) : Len(Fields(OutputLines(wtOut)[k])) = 2

\* C9: for width <= 0 WrapText returns the text as it is.
C9_NonPositiveWidthUnchanged ==
    wtPc # "call" /\ wtWidth <= 0 => wtOut = wtText

\* C9 witness: a text that any wrapping would change was wrapped at width 0
C9_WrappedAtZero ==
    /\ wtPc = "wrapped"
    /\ wtWidth = 0
    /\ Len(Fields(wtText)) >= 2
    /\ wtText[Len(wtText)] # NL

RECURSIVE Shape(_, _)
\* the paragraphs and blank runs of a sequence of lines: -1 for a maximal run
\* of lines with words, k for a maximal run of k lines without words
Shape(lines, run) ==
    IF lines = <<>> THEN (IF run = 0 THEN <<>> ELSE <<run>>)
    ELSE IF Fields(Head(lines)) = <<>>
         THEN (IF run < 0 THEN <<run>> ELSE <<>>)
              \o Shape(Tail(lines), IF run < 0 THEN 1 ELSE run + 1)
         ELSE (IF run > 0 THEN <<run>> ELSE <<>>) \o Shape(Tail(lines), -1)

\* the lines of a sequence that have no words
Wordless(lines) == {k \in 1..Len(lines) : Fields(lines[k]) = <<>>}

\* C10: for width > 0 every input line without words gives one empty output
\* line, so the output has the blank lines of the input: as many, and as
\* many between the same paragraphs.
C10_BlankLinesPreserved ==
    wtPc # "call" /\ wtWidth > 0 =>
        LET inLines == Split(wtText, NL)
            outLines == OutputLines(wtOut)
        IN /\ Cardinality(Wordless(outLines)) = Cardinality(Wordless(inLines))
           /\ \A k \in Wordless(outLines) : outLines[k] = <<>>
           /\ Shape(outLines, 0) = Shape(inLines, 0)

\* C10 witness: two paragraphs with two lines without words between them, one
\* of them of spaces only
C10_TwoBlankLinesBetween ==
    /\ wtPc = "wrapped"
    /\ wtWidth > 0
    /\ Shape(Split(wtText, NL), 0) = <<-1, 2, -1>>
    /\ \E k \in Wordless(Split(wtText, NL)) : Split(wtText, NL)[k] # <<>>


(***************************************************************************)
(* HighlightText                                                           *)
(***************************************************************************)
\* the spans of the call, in insertion order
HlSpans == AllMatches(hlQuery, hlSearchMatches, hlCurrentMatch, hlUrlMatches)

SpansInBounds(content, spans) ==
    \A k \in 1..Len(spans) : InContent(content, spans[k].start, spans[k].end)

\* two half-open spans share no position and neither lies inside the other
Disjoint(x, y) == x.end <= y.start \/ y.end <= x.start

NonOverlapping(spans) ==
    \A j, k \in 1..Len(spans) : j # k => Disjoint(spans[j], spans[k])

NonEmptySpans(spans) == \A k \in 1..Len(spans) : spans[k].start < spans[k].end

\* the output with the styling removed
SegmentsText(segs) == Concat([k \in 1..Len(segs) |-> segs[k].text])

C12_CoverageOverlappingSpans ==
    (hlPc = "done" /\ SpansInBounds(hlContent, HlSpans) /\ NonEmptySpans(HlSpans))
        => (~hlOut.panic /\ SegmentsText(hlOut.segs) = hlContent)

RECURSIVE InsertStable(_, _)
\* x placed behind every span that does not start after it
InsertStable(sorted, x) ==
    IF sorted = <<>> THEN <<x>>
    ELSE IF Head(sorted).start <= x.start
         THEN <<Head(sorted)>> \o InsertStable(Tail(sorted), x)
         ELSE <<x>> \o sorted

RECURSIVE StableSortFrom(_, _, _)
StableSortFrom(spans, k, sorted) ==
    IF k > Len(spans) THEN sorted
    ELSE StableSortFrom(spans, k + 1, InsertStable(sorted, spans[k]))

\* the spans ordered by start, those of equal start in insertion order
StableSort(spans) == StableSortFrom(spans, 1, <<>>)

\* C13 as stated: the unified span list is ordered as a stable sort by start
\* orders it, for every input list
C13_SortStable == hlPc = "done" => hlOut.spans = StableSort(HlSpans)

\* searchMatches is strictly ascending, and so are the starts of urlMatches
AscendingInputs ==
    /\ StrictlyAscending(hlSearchMatches)
    /\ StrictlyAscending([k \in 1..Len(hlUrlMatches) |-> hlUrlMatches[k][1]])

\* C13 amended: when searchMatches and the starts of urlMatches are each
\* strictly ascending, the unified span list is ordered as a stable sort by
\* start orders it, so a search span precedes a URL span of the same start
C13_SortStableOnAscending ==
    (hlPc = "done" /\ AscendingInputs) => hlOut.spans = StableSort(HlSpans)

\* ascending inputs in which a URL span starts where a search span starts and
\* another URL span had to be moved in front of the search spans
C13_TieAfterSwap ==
    /\ hlPc = "done" /\ AscendingInputs
    /\ Len(hlSearchMatches) >= 1 /\ Len(hlUrlMatches) = 2
    /\ hlUrlMatches[1][1] < hlSearchMatches[1]
    /\ hlUrlMatches[2][1] = hlSearchMatches[Len(hlSearchMatches)]
    /\ hlOut.spans = StableSort(HlSpans)

\* how often x occurs in seq
SeqCount(seq, x) == Cardinality({k \in 1..Len(seq) : seq[k] = x})

\* the segments the claim expects for the spans handed over, in insertion order
StyledSpans ==
    [k \in 1..Len(hlSearchMatches) |->
        Segment(Slice(hlContent, hlSearchMatches[k], hlSearchMatches[k] + Len(hlQuery)),
                IF k - 1 = hlCurrentMatch THEN "CurrentMatch" ELSE "SearchMatch")]
    \o [k \in 1..Len(hlUrlMatches) |->
        Segment(Slice(hlContent, hlUrlMatches[k][1], hlUrlMatches[k][2]), "Url")]

\* the segments emitted for spans
SpanSegments == SelectSeq(hlOut.segs, LAMBDA sg : sg.style # "Default")

\* C14: a search span is styled CurrentMatch iff its index in searchMatches is
\* currentMatchIndex and SearchMatch otherwise, a URL span is styled Url, and
\* with 0 <= currentMatchIndex < len(matches) exactly one emitted span is
\* styled CurrentMatch
C14_StylesByIndex ==
    (hlPc = "done" /\ ~hlOut.panic) =>
        /\ Len(SpanSegments) = Len(StyledSpans)
        /\ \A k \in 1..Len(StyledSpans) :
              SeqCount(SpanSegments, StyledSpans[k]) = SeqCount(StyledSpans, StyledSpans[k])
        /\ (0 <= hlCurrentMatch /\ hlCurrentMatch < Len(hlSearchMatches)) =>
              Cardinality({k \in 1..Len(hlOut.segs) :
                              hlOut.segs[k].style = "CurrentMatch"}) = 1

\* two search spans of which the second is the current one, and a URL span
C14_SecondMatchCurrent ==
    /\ hlPc = "done" /\ ~hlOut.panic
    /\ Len(hlSearchMatches) = 2 /\ hlCurrentMatch = 1 /\ Len(hlUrlMatches) >= 1
    /\ \E k \in 1..Len(hlOut.segs) :
          /\ hlOut.segs[k].style = "CurrentMatch"
          /\ hlOut.segs[k].text = Slice(hlContent, hlSearchMatches[2],
                                        hlSearchMatches[2] + Len(hlQuery))


(***************************************************************************)
(* The screens, the fetch completion, the in-article search and the resize *)
(***************************************************************************)
\* the changes of screen of the state machine
AllowedScreenChanges ==
    {<<wikiSelectionView, searchResultsView>>,
     <<searchResultsView, articleView>>,
     <<articleView, searchArticleView>>,
     <<searchArticleView, articleView>>,
     <<articleView, searchResultsView>>,
     <<searchArticleView, searchResultsView>>,
     <<searchResultsView, wikiSelectionView>>}

\* C15: every change of screen made by Update is one of the state machine's,
\* and Article is entered only from SearchResults, by a fetch completion, or
\* from ArticleSearch, by Enter
C15_ScreenChanges ==
    [][(m'.state # m.state) =>
          /\ <<m.state, m'.state>> \in AllowedScreenChanges
          /\ (m'.state = articleView) =>
                \/ (m.state = searchResultsView /\ ArticleMsg)
                \/ (m.state = searchArticleView /\ KeyEnter)]_vars

\* C16: a successful fetch completion empties the match list, sets
\* currentMatchIndex to 0 and clears the in-article query
C16_FetchResetsMatches ==
    [][(\E content \in ArticlePayloads : ArticleMsgContent(content)) =>
          /\ m'.matchIndexes = <<>>
          /\ m'.currentMatchIndex = 0
          /\ m'.searchQuery = <<>>]_vars

\* View lines 274-275: the text HighlightText receives
Rendered(mm) == WrapText(FormatText(mm.articleContent), mm.vpWidth)

\* C17: in every Article state that is rendered, each search match's slice of
\* the rendered text is the query, ignoring case, and each URL span's slice of
\* the rendered text is a URL found there
C17_SpansOnRenderedText ==
    (running = "running" /\ m.state = articleView) =>
        LET buf == Rendered(m)
        IN /\ \A k \in 1..Len(m.matchIndexes) :
                 LET start == m.matchIndexes[k]
                     end == start + Len(m.searchQuery)
                 IN /\ InContent(buf, start, end)
                    /\ ToLower(Slice(buf, start, end)) = ToLower(m.searchQuery)
           /\ \A k \in 1..Len(m.urlMatches) :
                 /\ InContent(buf, m.urlMatches[k][1], m.urlMatches[k][2])
                 /\ UrlMatchEnd(buf, m.urlMatches[k][1]) = m.urlMatches[k][2]

\* C18: Enter in ArticleSearch moves to Article, sets the matches to
\* FindMatches(article content, typed query), currentMatchIndex to 0 and
\* unfocuses the input; the scroll offset changes only if there is a match
C18_SubmitInArticleSearch ==
    [][(KeyEnter /\ m.state = searchArticleView) =>
          /\ m'.state = articleView
          /\ m'.searchQuery = m.value
          /\ m'.matchIndexes = FindMatches(m.articleContent, m.value)
          /\ m'.currentMatchIndex = 0
          /\ ~m'.focused
          /\ (m'.yOffset # m.yOffset) => Len(m'.matchIndexes) > 0]_vars

\* a query without a match was submitted while the article was scrolled down
C18_NoMatchKeepsScroll ==
    /\ m.state = articleView /\ ~m.focused
    /\ m.searchQuery = <<110>> /\ m.matchIndexes = <<>> /\ m.currentMatchIndex = 0
    /\ m.yOffset > 0

\* the text the viewport displays: the article wrapped at the current width
Displayed(mm) == WrapText(mm.articleContent, mm.vpWidth)

\* C19: after next/prev match, and after submitting a query that has a match,
\* the scroll offset is the number of line breaks before the current match in
\* the displayed text, up to the viewport's clamping at its last page
C19_ScrollToDisplayedLine ==
    [][(\/ ((KeyNext \/ KeyPrev) /\ m.state = articleView /\ Len(m.matchIndexes) > 0)
        \/ (KeyEnter /\ m.state = searchArticleView /\ Len(m'.matchIndexes) > 0)) =>
          LET index == m'.matchIndexes[m'.currentMatchIndex + 1]
          IN /\ index <= Len(Displayed(m'))
             /\ m'.yOffset = Min(CalculateLineFromIndex(Displayed(m'), index),
                                 MaxYOffset(m'))]_vars

\* C20: a resize sets the viewport content to WrapText(raw article content,
\* new width) and leaves the raw content, the screen, the cursors, the matches
\* and currentMatchIndex unchanged; whenever an article is loaded the viewport
\* content is WrapText(raw article content, latest width)
C20_ResizeRewrapsRaw ==
    [][/\ WindowSize =>
            /\ m'.vpLines = Split(WrapText(m.articleContent, m'.vpWidth), NL)
            /\ m'.articleContent = m.articleContent
            /\ m'.state = m.state
            /\ m'.cursor = m.cursor /\ m'.wikiCursor = m.wikiCursor
            /\ m'.matchIndexes = m.matchIndexes
            /\ m'.currentMatchIndex = m.currentMatchIndex
       /\ (m'.state \in {articleView, searchArticleView}) =>
            m'.vpLines = Split(WrapText(m'.articleContent, m'.vpWidth), NL)]_vars

\* the window was resized while the article was scrolled down:
\* the offset is past the last page of the wrapped text
C20_ResizedWhileScrolled ==
    /\ m.state = articleView /\ m.articleContent # <<>>
    /\ m.yOffset > MaxYOffset(m)
    /\ m.vpLines = Split(WrapText(m.articleContent, m.vpWidth), NL)

\* the Update of the completion message of the i-th pending command when it
\* carries the error err
OnErrorOf(i, err) ==
    IF pending[i].kind = "search" THEN OnSearchMsg(m, <<>>, err)
    ELSE OnArticleMsg(m, <<>>, err)

\* C21: a search or fetch completion that carries an error sets the status
\* message to the error text, leaves screen, results, resultCursor, article
\* content, selected title, matches and currentMatchIndex unchanged, and is
\* never fatal: Update returns no quit and neither it nor the View panics
C21_ErrorOnlySetsStatus ==
    running = "running" =>
        \A i \in 1..Len(pending), err \in Errors :
            LET r == OnErrorOf(i, err)
            IN /\ r.m.statusMsg = <<"Error", err>>
               /\ r.m.state = m.state
               /\ r.m.results = m.results
               /\ r.m.cursor = m.cursor
               /\ r.m.articleContent = m.articleContent
               /\ r.m.selectedTitle = m.selectedTitle
               /\ r.m.matchIndexes = m.matchIndexes
               /\ r.m.currentMatchIndex = m.currentMatchIndex
               /\ ~r.quit /\ ~r.panic /\ ~ViewPanics(r.m)
               /\ r.cmd = NoCmd /\ r.page = NoPage

\* a fetch failed: the error is the status, the results are still listed
C21_FetchErrorShown ==
    /\ running = "running" /\ pending = <<>>
    /\ m.statusMsg = <<"Error", "request failed">>
    /\ m.state = searchResultsView /\ Len(m.results) = 2 /\ m.cursor = 1
    /\ m.selectedTitle = Title(2)

\* C22: after a search or fetch completion that carries an error the text
\* input is focused, in whichever state the completion arrives
C22_ErrorFocusesInput ==
    running = "running" =>
        \A i \in 1..Len(pending), err \in Errors : OnErrorOf(i, err).m.focused

\* C23: from every state, focused or not, with or without a pending request,
\* 'q' or ctrl+c makes the program quit and changes nothing else
C23_QuitKeyQuits ==
    running = "running" =>
        LET r == OnQuitKey(m)
        IN r.quit /\ ~r.panic /\ r.m = m /\ r.cmd = NoCmd /\ r.page = NoPage

\* the program quit while the input of the article search was focused and a
\* text was typed into it
C23_QuitWhileTyping ==
    /\ running = "quit" /\ opened = NoPage
    /\ m.state = searchArticleView /\ m.focused /\ m.value # <<>>

\* a title with an underscore in the place of every space
Underscored(title) == [k \in 1..Len(title) |-> IF title[k] = SP THEN 95 ELSE title[k]]

C25_OneCompletionMessage ==
    /\ [](cmPc = "issued" => cmMsgs = <<>>)
    /\ [](cmPc = "done" =>
            /\ Len(cmMsgs) = 1
            /\ cmMsgs[1].type = (IF cmKind = "search" THEN "SearchMsg" ELSE "ArticleMsg")
            /\ (cmFails = {}) => (cmMsgs[1].err = "" /\ cmMsgs[1].payload = cmResponse)
            /\ (cmFails # {}) => (cmMsgs[1].err \in cmFails /\ cmMsgs[1].payload = <<>>)
            /\ m = InitModel /\ pending = <<>>)
    /\ (cmPc = "issued" ~> cmPc = "done")

\* a fetch whose response was read and decoded, and whose extraction failed
C25_ExtractionFailed ==
    /\ cmPc = "done" /\ cmKind = "fetch" /\ cmFails = {"FromReader"}
    /\ cmResponse # <<>>
    /\ cmMsgs = <<[type |-> "ArticleMsg", payload |-> <<>>, err |-> "FromReader"]>>

\* the number of commands of a kind that have not delivered their message
InFlight(kind) == Cardinality({i \in 1..Len(pending) : pending[i].kind = kind})

\* C26: at any time at most one search and at most one fetch is outstanding
C26_OneRequestOfAKind == InFlight("search") <= 1 /\ InFlight("fetch") <= 1

\* C27: the stored article content changes only by a successful fetch
\* completion, which replaces it by the payload, and by esc in Article and
\* ArticleSearch, which clears it; every other message leaves it unchanged
C27_ArticleContentChanges ==
    running = "running" =>
        LET keeps(r) == r.m.articleContent = m.articleContent
        IN /\ \A content \in ArticlePayloads :
                 OnArticleMsg(m, content, "").m.articleContent = content
           /\ OnEsc(m).m.articleContent =
                 (IF m.state \in {articleView, searchArticleView} THEN <<>>
                  ELSE m.articleContent)
           /\ \A err \in Errors :
                 keeps(OnArticleMsg(m, <<>>, err)) /\ keeps(OnSearchMsg(m, <<>>, err))
           /\ \A results \in SearchPayloads : keeps(OnSearchMsg(m, results, ""))
           /\ \A size \in WindowSizes : keeps(OnWindowSize(m, size))
           /\ \A key \in {"ctrl+u", "ctrl+d"} : keeps(OnScroll(m, key))
           /\ \A key \in TypedKeys : keeps(OnOtherKey(m, key))
           /\ keeps(OnQuitKey(m)) /\ keeps(OnSlash(m))
           /\ keeps(OnNext(m)) /\ keeps(OnPrev(m))
           /\ keeps(OnUp(m, "up")) /\ keeps(OnDown(m, "down"))
           /\ keeps(OnOpen(m)) /\ keeps(OnEnter(m))

\* an article was displayed and esc cleared it
C27_ClearedByEsc ==
    /\ running = "running" /\ m.state = searchResultsView
    /\ m.statusMsg = <<"Displaying article", Title(1)>>
    /\ m.articleContent = <<>>

\* C28: in SearchResults, Enter issues a search iff the input is focused and
\* its value is non-empty, and then sets the status to "Searching..." and
\* unfocuses the input; it issues a fetch of results[resultCursor] iff the
\* input is not focused and there are results; it never issues both
C28_EnterInSearchResults ==
    (running = "running" /\ m.state = searchResultsView) =>
        LET r == OnEnter(m)
            search == [kind |-> "search", arg |-> m.value, wiki |-> m.searchType]
        IN /\ Len(r.cmd) <= 1
           /\ (\E k \in 1..Len(r.cmd) : r.cmd[k].kind = "search")
                 <=> (m.focused /\ m.value # <<>>)
           /\ (\E k \in 1..Len(r.cmd) : r.cmd[k].kind = "fetch")
                 <=> (~m.focused /\ Len(m.results) > 0)
           /\ (m.focused /\ m.value # <<>>) =>
                 /\ r.cmd = <<search>>
                 /\ r.m.statusMsg = <<"Searching...", "">>
                 /\ ~r.m.focused
           /\ (~m.focused /\ Len(m.results) > 0) =>
                 /\ r.cmd = <<[kind |-> "fetch", arg |-> m.results[m.cursor + 1],
                                wiki |-> m.searchType]>>
                 /\ r.m.statusMsg = <<"Fetching article...", "">>

\* Enter was pressed in the focused input while results were listed: the
\* search is in flight, and no fetch is
C28_SearchedAgain ==
    /\ running = "running" /\ m.state = searchResultsView
    /\ ~m.focused /\ Len(m.results) > 0
    /\ m.statusMsg = <<"Searching...", "">>
    /\ pending = <<[kind |-> "search", arg |-> m.value, wiki |-> "arch"]>>

\* C29: the exchange sort leaves the unified span list a permutation of the
\* spans built from searchMatches and urlMatches, in non-decreasing order of
\* start, for every input list
C29_SortOrdersSpans ==
    hlPc = "done" =>
        /\ Len(hlOut.spans) = Len(HlSpans)
        /\ \A x \in Range(HlSpans) \cup Range(hlOut.spans) :
              SeqCount(hlOut.spans, x) = SeqCount(HlSpans, x)
        /\ \A k \in 1..(Len(hlOut.spans) - 1) :
              hlOut.spans[k].start <= hlOut.spans[k + 1].start

\* four spans, two of them equal, were handed over with the last one starting
\* before the first
C29_SortedFourSpans ==
    /\ hlPc = "done" /\ Len(HlSpans) = 4
    /\ HlSpans[4].start < HlSpans[1].start
    /\ HlSpans[1] = HlSpans[2]
    /\ hlOut.spans # HlSpans
    /\ hlOut.spans[1] = HlSpans[4]

\* words joined by single spaces
RECURSIVE JoinWords(_)
JoinWords(words) ==
    IF words = <<>> THEN <<>>
    ELSE IF Len(words) = 1 THEN words[1]
    ELSE words[1] \o <<SP>> \o JoinWords(Tail(words))

\* the output lines written for the k-th input line
OutputOf(k) == OutputLines(WrapLine(Split(wtText, NL)[k], wtWidth))

\* C30: WrapText is greedy per input line: of two consecutive output lines
\* written for one input line, the first has no room for a space and the
\* first word of the second; the words of an output line are separated by
\* exactly one space
C30_GreedyBreaks ==
    (wtPc # "call" /\ wtWidth > 0) =>
        LET inLines == Split(wtText, NL)
        IN /\ OutputLines(wtOut) = Concat([k \in 1..Len(inLines) |-> OutputOf(k)])
           /\ \A k \in 1..Len(inLines) :
                 \A j \in 1..(Len(OutputOf(k)) - 1) :
                     Len(OutputOf(k)[j]) + 1 + Len(Fields(OutputOf(k)[j + 1])[1]) > wtWidth
           /\ \A j \in 1..Len(OutputLines(wtOut)) :
                 OutputLines(wtOut)[j] = JoinWords(Fields(OutputLines(wtOut)[j]))

\* a line of three words was broken after the second: two words share the
\* first output line and the third did not fit
C30_BrokenAfterTwoWords ==
    /\ wtPc = "wrapped" /\ wtWidth = MaxWidth
    /\ Len(Split(wtText, NL)) = 1 /\ Len(Fields(wtText)) = 3
    /\ Len(OutputOf(1)) = 2
    /\ Len(Fields(OutputOf(1)[1])) = 2

\* C31: wherever the article is rendered, every search span and URL span
\* lies within the text handed to HighlightText, and every match offset,
\* which the scrolling hands to CalculateLineFromIndex, is at most the length
\* of the stored article content
C31_SpansAndOffsetsInRange ==
    m.state = articleView =>
        /\ SpansInBounds(Rendered(m), AllMatches(m.searchQuery, m.matchIndexes,
                                                 m.currentMatchIndex, m.urlMatches))
        /\ \A k \in 1..Len(m.matchIndexes) : m.matchIndexes[k] <= Len(m.articleContent)

\* C32: whenever the screen is Article, selectedTitle is the title whose
\* fetch delivered the stored article content, in whichever order the
\* completions of several fetches arrive
C32_TitleOfDisplayedArticle ==
    (origin.kept /\ m.state = articleView) => m.selectedTitle = origin.article

\* C33: whenever the browser is opened on results[resultCursor] or a fetch
\* of it is issued, the results were delivered by a search in the active
\* wiki source
C33_ResultsOfActiveWiki ==
    origin.kept =>
        /\ opened # NoPage => origin.results = m.searchType
        /\ running = "running" =>
              \A k \in 1..Len(OnEnter(m).cmd) :
                  OnEnter(m).cmd[k].kind = "fetch" => origin.results = m.searchType

\* C34: in WikiSelect, Article and ArticleSearch no key issues a search or a
\* fetch, whatever keys and completion messages came before
C34_RequestsOnlyInSearchResults ==
    (running = "running" /\ m.state # searchResultsView) =>
        /\ OnEnter(m).cmd = NoCmd
        /\ OnEsc(m).cmd = NoCmd /\ OnSlash(m).cmd = NoCmd
        /\ OnNext(m).cmd = NoCmd /\ OnPrev(m).cmd = NoCmd
        /\ OnUp(m, "up").cmd = NoCmd /\ OnDown(m, "down").cmd = NoCmd
        /\ OnOpen(m).cmd = NoCmd /\ OnQuitKey(m).cmd = NoCmd
        /\ \A key \in {"ctrl+u", "ctrl+d"} : OnScroll(m, key).cmd = NoCmd
        /\ \A key \in TypedKeys : OnOtherKey(m, key).cmd = NoCmd

\* C35: whenever the screen is WikiSelect or SearchResults the stored article
\* content is empty, after any sequence of keys and completion messages
C35_NoArticleOutsideArticle ==
    m.state \in {wikiSelectionView, searchResultsView} => m.articleContent = <<>>

\* an article was displayed and searched in, and the user went back from it
\* to the wiki selection
C35_BackInWikiSelect ==
    /\ running = "running" /\ m.state = wikiSelectionView
    /\ m.statusMsg[1] = "Displaying article" /\ m.searchQuery # <<>>
    /\ m.articleContent = <<>>

\* C36: FindMatches terminates; the scan position grows with every match
\* found and is never past len(content), and no more than len(content)
\* matches are found
C36_ScanEndsWithinContent ==
    /\ <>(fmPc = "done")
    /\ [][Len(fmMatches') > Len(fmMatches) => fmStart' > fmStart]_vars
    /\ [](fmStart <= Len(fmContent))
    /\ [](Len(fmMatches) <= Len(fmContent))

====
